---- MODULE Spec2Model ----
(***************************************************************************)
(* Model of src/cpu_detect/vllm_cpu_detect.py: CPUDetector and main().     *)
(*                                                                         *)
(* A text (the content of /proc/cpuinfo, the stdout of lscpu or sysctl) is *)
(* a sequence of atoms, an atom being a run of characters that the         *)
(* searched tokens never split.  str.lower() acts atom by atom and the     *)
(* Python `in` operator on strings is contiguous-subsequence search.       *)
(***************************************************************************)
EXTENDS Integers, Sequences, FiniteSets, TLC

VARIABLES
    machine,        \* self.machine  (platform.machine())
    system,         \* self.system   (platform.system())
    self_features,  \* self.features
    features,       \* the local `features` of the running _detect_* method
    cpuinfo_state,  \* host: what open("/proc/cpuinfo") does
    cpuinfo,        \* host: content of /proc/cpuinfo
    lscpu_outcome,  \* host: what subprocess.run(["lscpu"]) does
    lscpu_stdout,   \* host: stdout of lscpu
    sysctl_outcome, \* host: what subprocess.run(["sysctl", "-a"]) does
    sysctl_stdout,  \* host: stdout of sysctl -a
    out,            \* lines printed so far, each a pair <<label, value>>
    package,        \* the local `package` of print_report
    exit_code,      \* value returned by main (-1 until it returns)
    exc,            \* exception that escaped main (None if none)
    attempts,       \* how many times each data source was opened / invoked
    pc              \* position in main

vars == <<machine, system, self_features, features, cpuinfo_state, cpuinfo,
          lscpu_outcome, lscpu_stdout, sysctl_outcome, sysctl_stdout,
          out, package, exit_code, exc, attempts, pc>>

host == <<machine, system, cpuinfo_state, cpuinfo, lscpu_outcome, lscpu_stdout,
          sysctl_outcome, sysctl_stdout>>

----------------------------------------------------------------------------
(* Bounds *)

\* at most this many lines of the vocabulary in one text
MaxWords == 2

None == "None"

----------------------------------------------------------------------------
(* Strings *)

\* str.lower(), atom by atom
LowerAtom(a) ==
    CASE a = "AVX512" -> "avx512"
      [] a = "VNNI" -> "vnni"
      [] OTHER -> a

lower(text) == [i \in 1..Len(text) |-> LowerAtom(text[i])]

\* Python: needle in hay
Contains(needle, hay) ==
    \E i \in 0..(Len(hay) - Len(needle)) :
        SubSeq(hay, i + 1, i + Len(needle)) = needle

\* the token literals of the source
T_avx512f == <<"avx512", "f">>
T_avx512_vnni == <<"avx512", "_", "vnni">>
T_avx512vnni == <<"avx512", "vnni">>
T_avx512_bf16 == <<"avx512", "_", "bf16">>
T_avx512bf16 == <<"avx512", "bf16">>
T_amx_bf16 == <<"amx", "_", "bf16">>
T_amx_tile == <<"amx", "_", "tile">>
T_amx_int8 == <<"amx", "_", "int8">>
T_avx512 == <<"avx512">>

\* lines a Linux source may hold (flag names as the kernel and lscpu print
\* them, plus the concatenated spellings the code also accepts)
LinuxWords ==
    << <<"avx512", "f">>,
       <<"avx512", "_", "vnni">>,
       <<"AVX512", "VNNI">>,
       <<"avx512", "_", "bf16">>,
       <<"avx512", "bf16">>,
       <<"amx", "_", "bf16">>,
       <<"amx", "_", "tile">>,
       <<"amx", "_", "int8">> >>

\* lines sysctl -a may hold
SysctlWords ==
    << <<"hw.optional.", "avx512", "f">>,
       <<"hw.optional.", "AVX512", "cd">>,
       <<"hw.optional.", "avx512", "vnni">>,
       <<"hw.optional.", "avx512", "bf16">>,
       <<"hw.optional.", "amx", "_", "bf16">>,
       <<"hw.optional.", "avx2">> >>

RECURSIVE JoinLines(_, _, _)
JoinLines(words, S, i) ==
    IF i > Len(words) THEN << >>
    ELSE (IF i \in S THEN words[i] \o <<"\n">> ELSE << >>)
         \o JoinLines(words, S, i + 1)

\* the texts made of at most MaxWords distinct lines of a vocabulary
Texts(words) ==
    { JoinLines(words, S, 1) :
        S \in { S \in SUBSET (1..Len(words)) : Cardinality(S) <= MaxWords } }

----------------------------------------------------------------------------
(* Host environment *)

Systems == {"Linux", "Darwin", "Windows", "FreeBSD"}
Machines == {"x86_64", "aarch64", "arm64", "riscv64"}
FileStates == {"present", "missing", "unreadable"}
CmdOutcomes == {"ok", "nonzero", "missing", "timeout", "denied"}

EmptyDict == [f \in {} |-> FALSE]

\* Python truthiness of the value of dict.get(key): None when the key is absent
Get(d, key) == IF key \in DOMAIN d THEN d[key] ELSE FALSE

----------------------------------------------------------------------------
(* CPUDetector *)

LinuxFlags == {"avx512f", "avx512_vnni", "avx512_bf16", "amx_bf16", "amx_tile", "amx_int8"}
SmallFlags == {"avx512f", "avx512_vnni", "avx512_bf16", "amx_bf16"}
ArmMachines == {"aarch64", "arm64"}

\* features[key] = True
SetTrue(d, key) == [d EXCEPT ![key] = TRUE]

\* if <cond>: features[key] = True
SetIf(d, cond, key) == IF cond THEN SetTrue(d, key) ELSE d

\* _detect_linux, the checks on the lowered content of /proc/cpuinfo
ScanCpuinfo(d, text) ==
    LET d1 == SetIf(d, Contains(T_avx512f, text), "avx512f")
        d2 == SetIf(d1, Contains(T_avx512_vnni, text) \/ Contains(T_avx512vnni, text),
                    "avx512_vnni")
        d3 == SetIf(d2, Contains(T_avx512_bf16, text) \/ Contains(T_avx512bf16, text),
                    "avx512_bf16")
        d4 == SetIf(d3, Contains(T_amx_bf16, text), "amx_bf16")
        d5 == SetIf(d4, Contains(T_amx_tile, text), "amx_tile")
    IN  SetIf(d5, Contains(T_amx_int8, text), "amx_int8")

\* ScanLscpu with each flag assigned the outcome of its search (overwrite, not OR)
ScanLscpu_overwrite(d, text) ==
    [d EXCEPT !["avx512f"] = Contains(T_avx512f, text),
              !["avx512_vnni"] = Contains(T_avx512_vnni, text) \/ Contains(T_avx512vnni, text),
              !["avx512_bf16"] = Contains(T_avx512_bf16, text) \/ Contains(T_avx512bf16, text),
              !["amx_bf16"] = Contains(T_amx_bf16, text)]

\* _detect_linux, the checks on the lowered stdout of lscpu
ScanLscpu(d, text) ==
    LET d1 == SetIf(d, Contains(T_avx512f, text), "avx512f")
        d2 == SetIf(d1, Contains(T_avx512_vnni, text) \/ Contains(T_avx512vnni, text),
                    "avx512_vnni")
        d3 == SetIf(d2, Contains(T_avx512_bf16, text) \/ Contains(T_avx512bf16, text),
                    "avx512_bf16")
    IN  SetIf(d3, Contains(T_amx_bf16, text), "amx_bf16")

\* the stdout of lscpu used whatever the return code
ReturncodeZero_unchecked(outcome) == TRUE

\* if result.returncode == 0
ReturncodeZero(outcome) == outcome = "ok"

\* ScanSysctl with the VNNI and BF16 spellings searched as on Linux
ScanSysctl_refined(d, text) ==
    LET d1 == SetIf(d, Contains(T_avx512, text), "avx512f")
        d2 == SetIf(d1, Contains(T_avx512_vnni, text) \/ Contains(T_avx512vnni, text),
                    "avx512_vnni")
    IN  SetIf(d2, Contains(T_avx512_bf16, text) \/ Contains(T_avx512bf16, text),
              "avx512_bf16")

\* _detect_macos, the check on the lowered stdout of sysctl -a
ScanSysctl(d, text) == SetIf(d, Contains(T_avx512, text), "avx512f")

\* the exception subprocess.run raises for an outcome (None: it returns)
RunRaises(outcome) ==
    CASE outcome = "missing" -> "FileNotFoundError"
      [] outcome = "timeout" -> "TimeoutExpired"
      [] outcome = "denied" -> "PermissionError"
      [] OTHER -> None

\* except (subprocess.TimeoutExpired, FileNotFoundError)
CaughtByRun(e) == e \in {"TimeoutExpired", "FileNotFoundError"}

\* the exception open("/proc/cpuinfo") raises (None: it returns the file)
OpenRaises(state) ==
    CASE state = "missing" -> "FileNotFoundError"
      [] state = "unreadable" -> "PermissionError"
      [] OTHER -> None

\* recommend_package with the VNNI tier tested before the BF16 tiers
recommend_package_vnni_first(mach, feats) ==
    IF mach \in ArmMachines THEN "vllm-cpu"
    ELSE IF mach = "x86_64" /\ Get(feats, "avx512_vnni")
         THEN "vllm-cpu-avx512vnni"
    ELSE IF mach = "x86_64" /\ Get(feats, "amx_bf16") /\ Get(feats, "avx512_bf16")
            /\ Get(feats, "avx512_vnni")
         THEN "vllm-cpu-amxbf16"
    ELSE IF mach = "x86_64" /\ Get(feats, "avx512_bf16") /\ Get(feats, "avx512_vnni")
         THEN "vllm-cpu-avx512bf16"
    ELSE IF mach = "x86_64" /\ Get(feats, "avx512f")
         THEN "vllm-cpu-avx512"
    ELSE "vllm-cpu"

\* recommend_package with a misspelt identifier in the baseline AVX512 tier
recommend_package_typo(mach, feats) ==
    IF mach \in ArmMachines THEN "vllm-cpu"
    ELSE IF mach = "x86_64" /\ Get(feats, "amx_bf16") /\ Get(feats, "avx512_bf16")
            /\ Get(feats, "avx512_vnni")
         THEN "vllm-cpu-amxbf16"
    ELSE IF mach = "x86_64" /\ Get(feats, "avx512_bf16") /\ Get(feats, "avx512_vnni")
         THEN "vllm-cpu-avx512bf16"
    ELSE IF mach = "x86_64" /\ Get(feats, "avx512_vnni")
         THEN "vllm-cpu-avx512vnni"
    ELSE IF mach = "x86_64" /\ Get(feats, "avx512f")
         THEN "vllm-cpu-avx512f"
    ELSE "vllm-cpu"

\* recommend_package with the feature tiers tested before, and whatever, the architecture
recommend_package_features_first(mach, feats) ==
    IF Get(feats, "amx_bf16") /\ Get(feats, "avx512_bf16") /\ Get(feats, "avx512_vnni")
         THEN "vllm-cpu-amxbf16"
    ELSE IF Get(feats, "avx512_bf16") /\ Get(feats, "avx512_vnni")
         THEN "vllm-cpu-avx512bf16"
    ELSE IF Get(feats, "avx512_vnni")
         THEN "vllm-cpu-avx512vnni"
    ELSE IF Get(feats, "avx512f")
         THEN "vllm-cpu-avx512"
    ELSE "vllm-cpu"

\* recommend_package with the baseline AVX512 tier tested first
recommend_package_avx512_first(mach, feats) ==
    IF mach \in ArmMachines THEN "vllm-cpu"
    ELSE IF mach = "x86_64" /\ Get(feats, "avx512f")
         THEN "vllm-cpu-avx512"
    ELSE IF mach = "x86_64" /\ Get(feats, "amx_bf16") /\ Get(feats, "avx512_bf16")
            /\ Get(feats, "avx512_vnni")
         THEN "vllm-cpu-amxbf16"
    ELSE IF mach = "x86_64" /\ Get(feats, "avx512_bf16") /\ Get(feats, "avx512_vnni")
         THEN "vllm-cpu-avx512bf16"
    ELSE IF mach = "x86_64" /\ Get(feats, "avx512_vnni")
         THEN "vllm-cpu-avx512vnni"
    ELSE "vllm-cpu"

\* recommend_package with the AMX tier also requiring amx_tile
recommend_package_needs_tile(mach, feats) ==
    IF mach \in ArmMachines THEN "vllm-cpu"
    ELSE IF mach = "x86_64" /\ Get(feats, "amx_bf16") /\ Get(feats, "amx_tile")
            /\ Get(feats, "avx512_bf16") /\ Get(feats, "avx512_vnni")
         THEN "vllm-cpu-amxbf16"
    ELSE IF mach = "x86_64" /\ Get(feats, "avx512_bf16") /\ Get(feats, "avx512_vnni")
         THEN "vllm-cpu-avx512bf16"
    ELSE IF mach = "x86_64" /\ Get(feats, "avx512_vnni")
         THEN "vllm-cpu-avx512vnni"
    ELSE IF mach = "x86_64" /\ Get(feats, "avx512f")
         THEN "vllm-cpu-avx512"
    ELSE "vllm-cpu"

recommend_package(mach, feats) ==
    IF mach \in ArmMachines THEN "vllm-cpu"
    ELSE IF mach = "x86_64" /\ Get(feats, "amx_bf16") /\ Get(feats, "avx512_bf16")
            /\ Get(feats, "avx512_vnni")
         THEN "vllm-cpu-amxbf16"
    ELSE IF mach = "x86_64" /\ Get(feats, "avx512_bf16") /\ Get(feats, "avx512_vnni")
         THEN "vllm-cpu-avx512bf16"
    ELSE IF mach = "x86_64" /\ Get(feats, "avx512_vnni")
         THEN "vllm-cpu-avx512vnni"
    ELSE IF mach = "x86_64" /\ Get(feats, "avx512f")
         THEN "vllm-cpu-avx512"
    ELSE "vllm-cpu"

\* print_report: the identifiers of the `packages` list, in order
packages ==
    <<"vllm-cpu", "vllm-cpu-avx512", "vllm-cpu-avx512vnni", "vllm-cpu-avx512bf16",
      "vllm-cpu-amxbf16">>

\* sorted(self.features.items()): the flag names in string order
SortedFlags ==
    <<"amx_bf16", "amx_int8", "amx_tile", "avx512_bf16", "avx512_vnni", "avx512f">>

\* feature.upper()
upper(name) ==
    CASE name = "amx_bf16" -> "AMX_BF16"
      [] name = "amx_int8" -> "AMX_INT8"
      [] name = "amx_tile" -> "AMX_TILE"
      [] name = "avx512_bf16" -> "AVX512_BF16"
      [] name = "avx512_vnni" -> "AVX512_VNNI"
      [] name = "avx512f" -> "AVX512F"

RECURSIVE FeatureRows(_, _)
FeatureRows(feats, i) ==
    IF i > Len(SortedFlags) THEN << >>
    ELSE (IF SortedFlags[i] \in DOMAIN feats
          THEN << <<IF feats[SortedFlags[i]] THEN "Supported" ELSE "Not Supported",
                    upper(SortedFlags[i])>> >>
          ELSE << >>)
         \o FeatureRows(feats, i + 1)

\* CatalogRows marking with `pkg in package` (substring) instead of equality
CatalogRows_substring(pkg) ==
    LET within(a, b) ==
            \/ a = b
            \/ a = "vllm-cpu"
            \/ a = "vllm-cpu-avx512" /\ b \in {"vllm-cpu-avx512vnni", "vllm-cpu-avx512bf16"}
    IN  [i \in 1..Len(packages) |->
            <<IF within(packages[i], pkg) THEN "=>" ELSE "  ", packages[i]>>]

\* the rows of "All Available Packages", the chosen one marked
CatalogRows(pkg) ==
    [i \in 1..Len(packages) |-> <<IF packages[i] = pkg THEN "=>" ELSE "  ", packages[i]>>]

\* get_cpu_info: value returned given the "model name" line of the file (None
\* when no line starts with it or the file was not read) and platform.processor()
CpuModel(model_line, processor) ==
    IF model_line # None THEN model_line
    ELSE IF processor # "" THEN processor ELSE "Unknown CPU"

\* the condition of main's `if` without its features operand
ExitOk_arm_only(feats, mach) == mach \in ArmMachines

\* main: the condition of its `if`
ExitOk(feats, mach) == DOMAIN feats # {} \/ mach \in ArmMachines

----------------------------------------------------------------------------
(* main: one run on one host *)

NoAttempts == [s \in {"cpuinfo", "lscpu", "sysctl"} |-> 0]

Attempt(src) == [attempts EXCEPT ![src] = @ + 1]

AllFalse(flags) == [f \in flags |-> FALSE]

HostInit ==
    /\ machine \in Machines
    /\ system \in Systems
    /\ cpuinfo_state \in (IF system = "Linux" THEN FileStates ELSE {"missing"})
    /\ cpuinfo \in (IF cpuinfo_state = "present" THEN Texts(LinuxWords) ELSE {<< >>})
    /\ lscpu_outcome \in (IF system = "Linux" THEN CmdOutcomes ELSE {"missing"})
    /\ lscpu_stdout \in (IF lscpu_outcome \in {"ok", "nonzero"}
                         THEN Texts(LinuxWords) ELSE {<< >>})
    /\ sysctl_outcome \in (IF system = "Darwin" THEN CmdOutcomes ELSE {"missing"})
    /\ sysctl_stdout \in (IF sysctl_outcome \in {"ok", "nonzero"}
                          THEN Texts(SysctlWords) ELSE {<< >>})

\* detector = CPUDetector()
Init ==
    /\ HostInit
    /\ self_features = EmptyDict
    /\ features = EmptyDict
    /\ out = << >>
    /\ package = None
    /\ exit_code = -1
    /\ exc = None
    /\ attempts = NoAttempts
    /\ pc = "detect"

\* detect -> _detect_linux, up to the end of the first try statement
DetectLinuxCpuinfo ==
    /\ pc = "detect"
    /\ system = "Linux"
    /\ attempts' = Attempt("cpuinfo")
    /\ LET e == OpenRaises(cpuinfo_state) IN
         /\ features' = IF e = None
                        THEN ScanCpuinfo(AllFalse(LinuxFlags), lower(cpuinfo))
                        ELSE AllFalse(LinuxFlags)
         /\ out' = IF e = "FileNotFoundError"
                   THEN Append(out, <<"Could not read /proc/cpuinfo", "">>)
                   ELSE out
         /\ exc' = IF e \in {None, "FileNotFoundError"} THEN None ELSE e
         /\ pc' = IF e \in {None, "FileNotFoundError"} THEN "lscpu" ELSE "raised"
    /\ UNCHANGED <<host, self_features, package, exit_code>>

\* DetectLinuxLscpu running lscpu a second time after a timeout
DetectLinuxLscpu_retry ==
    /\ pc = "lscpu"
    /\ attempts' = [attempts EXCEPT !["lscpu"] =
                       @ + (IF lscpu_outcome = "timeout" THEN 2 ELSE 1)]
    /\ LET e == RunRaises(lscpu_outcome)
           found == IF e = None /\ ReturncodeZero(lscpu_outcome)
                    THEN ScanLscpu(features, lower(lscpu_stdout))
                    ELSE features
       IN
         /\ features' = found
         /\ self_features' = IF e = None \/ CaughtByRun(e) THEN found ELSE self_features
         /\ exc' = IF e = None \/ CaughtByRun(e) THEN None ELSE e
         /\ pc' = IF e = None \/ CaughtByRun(e) THEN "report" ELSE "raised"
    /\ UNCHANGED <<host, out, package, exit_code>>

\* _detect_linux, from the second try statement to its return
DetectLinuxLscpu ==
    /\ pc = "lscpu"
    /\ attempts' = Attempt("lscpu")
    /\ LET e == RunRaises(lscpu_outcome)
           found == IF e = None /\ ReturncodeZero(lscpu_outcome)
                    THEN ScanLscpu(features, lower(lscpu_stdout))
                    ELSE features
       IN
         /\ features' = found
         /\ self_features' = IF e = None \/ CaughtByRun(e) THEN found ELSE self_features
         /\ exc' = IF e = None \/ CaughtByRun(e) THEN None ELSE e
         /\ pc' = IF e = None \/ CaughtByRun(e) THEN "report" ELSE "raised"
    /\ UNCHANGED <<host, out, package, exit_code>>

\* detect -> _detect_macos
DetectMacos ==
    /\ pc = "detect"
    /\ system = "Darwin"
    /\ attempts' = Attempt("sysctl")
    /\ LET e == RunRaises(sysctl_outcome)
           found == IF e = None /\ ReturncodeZero(sysctl_outcome)
                    THEN ScanSysctl(AllFalse(SmallFlags), lower(sysctl_stdout))
                    ELSE AllFalse(SmallFlags)
       IN
         /\ features' = found
         /\ self_features' = IF e = None \/ CaughtByRun(e) THEN found ELSE self_features
         /\ exc' = IF e = None \/ CaughtByRun(e) THEN None ELSE e
         /\ pc' = IF e = None \/ CaughtByRun(e) THEN "report" ELSE "raised"
    /\ UNCHANGED <<host, out, package, exit_code>>

\* _detect_windows without its two print statements
DetectWindows_silent ==
    /\ pc = "detect"
    /\ system = "Windows"
    /\ features' = AllFalse(SmallFlags)
    /\ self_features' = AllFalse(SmallFlags)
    /\ pc' = "report"
    /\ UNCHANGED <<host, out, package, exit_code, exc, attempts>>

\* detect -> _detect_windows
DetectWindows ==
    /\ pc = "detect"
    /\ system = "Windows"
    /\ features' = AllFalse(SmallFlags)
    /\ self_features' = AllFalse(SmallFlags)
    /\ out' = out \o << <<"Windows CPU detection not yet implemented", "">>,
                        <<"Please check CPU features manually", "">> >>
    /\ pc' = "report"
    /\ UNCHANGED <<host, package, exit_code, exc, attempts>>

\* the else branch of detect raising instead of printing and returning {}
DetectUnsupported_raises ==
    /\ pc = "detect"
    /\ system \notin {"Linux", "Darwin", "Windows"}
    /\ exc' = "RuntimeError"
    /\ pc' = "raised"
    /\ UNCHANGED <<host, self_features, features, out, package, exit_code, attempts>>

\* detect, the else branch
DetectUnsupported ==
    /\ pc = "detect"
    /\ system \notin {"Linux", "Darwin", "Windows"}
    /\ out' = Append(out, <<"Unsupported operating system:", system>>)
    /\ pc' = "report"
    /\ UNCHANGED <<host, self_features, features, package, exit_code, exc, attempts>>

\* print_report, get_cpu_info and recommend_package included
PrintReport ==
    /\ pc = "report"
    /\ \E model_line \in {None, "Intel Xeon"}, processor \in {"", "x86_64"} :
         LET opens == system = "Linux"
             e == IF opens THEN OpenRaises(cpuinfo_state) ELSE None
             line == IF opens /\ e = None THEN model_line ELSE None
             escaped == e \notin {None, "FileNotFoundError"}
             head == << <<"System:", system>>, <<"Architecture:", machine>> >>
             pkg == recommend_package(machine, self_features)
         IN
           /\ attempts' = IF opens THEN Attempt("cpuinfo") ELSE attempts
           /\ exc' = IF escaped THEN e ELSE None
           /\ pc' = IF escaped THEN "raised" ELSE "return"
           /\ package' = IF escaped THEN package ELSE pkg
           /\ out' = IF escaped THEN out \o head
                     ELSE out \o head
                          \o << <<"CPU Model:", CpuModel(line, processor)>> >>
                          \o (IF DOMAIN self_features = {}
                              THEN << <<"(No features detected)", "">> >>
                              ELSE FeatureRows(self_features, 1))
                          \o << <<"Recommended Package:", pkg>>,
                                <<"pip install", pkg>> >>
                          \o CatalogRows(pkg)
    /\ UNCHANGED <<host, self_features, features, exit_code>>

\* main, after print_report
MainReturn ==
    /\ pc = "return"
    /\ exit_code' = IF ExitOk(self_features, machine) THEN 0 ELSE 1
    /\ out' = IF ExitOk(self_features, machine) THEN out
              ELSE out \o << <<"Warning: Could not detect CPU features reliably", "">>,
                             <<"Defaulting to base package (vllm-cpu)", "">> >>
    /\ pc' = "done"
    /\ UNCHANGED <<host, self_features, features, package, exc, attempts>>

Next ==
    \/ DetectLinuxCpuinfo
    \/ DetectLinuxLscpu
    \/ DetectMacos
    \/ DetectWindows
    \/ DetectUnsupported
    \/ PrintReport
    \/ MainReturn

Spec == Init /\ [][Next]_vars

----------------------------------------------------------------------------
(* recommend_package on any detector: every architecture, every FeatureSet *)

FeatureSets == UNION { [D -> BOOLEAN] : D \in SUBSET LinuxFlags }

InitRec ==
    /\ machine \in Machines
    /\ self_features \in FeatureSets
    /\ system = "Linux"
    /\ cpuinfo_state = "missing"
    /\ cpuinfo = << >>
    /\ lscpu_outcome = "missing"
    /\ lscpu_stdout = << >>
    /\ sysctl_outcome = "missing"
    /\ sysctl_stdout = << >>
    /\ features = self_features
    /\ out = << >>
    /\ package = None
    /\ exit_code = -1
    /\ exc = None
    /\ attempts = NoAttempts
    /\ pc = "recommend"

\* package = self.recommend_package()
Recommend ==
    /\ pc = "recommend"
    /\ package' = recommend_package(machine, self_features)
    /\ pc' = "recommended"
    /\ UNCHANGED <<host, self_features, features, out, exit_code, exc, attempts>>

NextRec == Recommend

SpecRec == InitRec /\ [][NextRec]_vars

----------------------------------------------------------------------------
(* Claims *)

\* the reference catalog of C1: tiers from most to least demanding, each with
\* the flags it requires; the last one requires nothing
RefTiers ==
    << [pkg |-> "vllm-cpu-amxbf16", needs |-> {"amx_bf16", "avx512_bf16", "avx512_vnni"}],
       [pkg |-> "vllm-cpu-avx512bf16", needs |-> {"avx512_bf16", "avx512_vnni"}],
       [pkg |-> "vllm-cpu-avx512vnni", needs |-> {"avx512_vnni"}],
       [pkg |-> "vllm-cpu-avx512", needs |-> {"avx512f"}],
       [pkg |-> "vllm-cpu", needs |-> {}] >>

\* a flag missing from the FeatureSet counts as false
Holds(feats, f) == f \in DOMAIN feats /\ feats[f] = TRUE

RECURSIVE RefFirstMatch(_, _)
RefFirstMatch(feats, i) ==
    IF \A f \in RefTiers[i].needs : Holds(feats, f)
    THEN RefTiers[i].pkg
    ELSE RefFirstMatch(feats, i + 1)

Reference(mach, feats) ==
    IF mach = "x86_64" THEN RefFirstMatch(feats, 1) ELSE "vllm-cpu"

\* C1: for every architecture and every FeatureSet, recommend_package returns
\* the package of the reference tier list evaluated top-down, first match
\* wins, and vllm-cpu on every architecture other than x86_64.
C1_TierList ==
    pc = "recommended" => package = Reference(machine, self_features)

C1_Witness ==
    /\ pc = "recommended"
    /\ machine = "x86_64"
    /\ package = "vllm-cpu-avx512bf16"
    /\ "amx_bf16" \notin DOMAIN self_features

\* C2: in every run, on every platform family, the package recommend_package
\* returned is one of the five identifiers of the catalog the report prints.
C2_Totality ==
    pc \in {"return", "done"} =>
        /\ package \in {"vllm-cpu", "vllm-cpu-avx512", "vllm-cpu-avx512vnni",
                        "vllm-cpu-avx512bf16", "vllm-cpu-amxbf16"}
        /\ \E i \in 1..Len(packages) : packages[i] = package

C2_Witness ==
    /\ pc = "done"
    /\ DOMAIN self_features = {}
    /\ package = "vllm-cpu"

\* C3: on aarch64 and arm64 recommend_package returns vllm-cpu for every
\* FeatureSet, also when every tier flag is true.
C3_ArmPrecedence ==
    pc = "recommended" /\ machine \in {"aarch64", "arm64"} => package = "vllm-cpu"

C3_Witness ==
    /\ pc = "recommended"
    /\ machine = "arm64"
    /\ \A f \in {"amx_bf16", "avx512_bf16", "avx512_vnni", "avx512f"} : Holds(self_features, f)
    /\ package = "vllm-cpu"

\* C4: main returns 0 if and only if at least one flag is true in the
\* FeatureSet after probing or the architecture is ARM-family, otherwise 1.
C4_ExitStatusPolicy ==
    pc = "done" =>
        /\ exit_code \in {0, 1}
        /\ exit_code = 0 <=>
             \/ \E f \in DOMAIN self_features : self_features[f]
             \/ machine \in {"aarch64", "arm64"}

Warned ==
    \E i \in 1..Len(out) : out[i][1] = "Warning: Could not detect CPU features reliably"

\* C5: when main returns 1 the package recommended in the run is vllm-cpu and
\* the inconclusive-detection warning was printed; when it returns 0 the
\* warning was not printed.
C5_WarningStatus ==
    /\ exit_code = 1 => package = "vllm-cpu" /\ Warned
    /\ exit_code = 0 => ~Warned

C5_Witness ==
    /\ exit_code = 1
    /\ machine = "x86_64"
    /\ package = "vllm-cpu"
    /\ Warned

\* the accepted spellings of each Linux flag
Spellings(flag) ==
    CASE flag = "avx512f" -> {T_avx512f}
      [] flag = "avx512_vnni" -> {T_avx512_vnni, T_avx512vnni}
      [] flag = "avx512_bf16" -> {T_avx512_bf16, T_avx512bf16}
      [] flag = "amx_bf16" -> {T_amx_bf16}
      [] flag = "amx_tile" -> {T_amx_tile}
      [] flag = "amx_int8" -> {T_amx_int8}

Occurs(flag, text) == \E t \in Spellings(flag) : Contains(t, lower(text))

\* what each Linux source reported: nothing when the file could not be read
\* or the command did not complete with status 0
CpuinfoReport == IF cpuinfo_state = "present" THEN cpuinfo ELSE << >>
LscpuReport == IF lscpu_outcome = "ok" THEN lscpu_stdout ELSE << >>

\* C6: after _detect_linux each of the six flags is true if and only if one
\* of its spellings occurs, in any case, in /proc/cpuinfo or in the output
\* of lscpu.
C6_LinuxMerge ==
    system = "Linux" /\ pc = "report" =>
        \A flag \in {"avx512f", "avx512_vnni", "avx512_bf16", "amx_bf16",
                     "amx_tile", "amx_int8"} :
            self_features[flag] <=>
                Occurs(flag, CpuinfoReport) \/ Occurs(flag, LscpuReport)

\* C7: whatever the data sources do, no exception escapes main, and the run
\* ends with a package of the catalog and an exit status of 0 or 1.
C7_NoFatalError ==
    /\ exc = None
    /\ pc # "raised"
    /\ pc = "done" =>
         /\ \E i \in 1..Len(packages) : packages[i] = package
         /\ exit_code \in {0, 1}

\* C8: on Linux, with /proc/cpuinfo missing and lscpu missing, timed out or
\* exiting non-zero, _detect_linux returns the six flags all false and
\* raises nothing.
C8_AllSourcesFail ==
    (/\ system = "Linux"
     /\ cpuinfo_state = "missing"
     /\ lscpu_outcome \in {"missing", "timeout", "nonzero"}
     /\ pc # "detect")
    => /\ exc = None
       /\ DOMAIN features = {"avx512f", "avx512_vnni", "avx512_bf16", "amx_bf16",
                             "amx_tile", "amx_int8"}
       /\ \A f \in DOMAIN features : features[f] = FALSE
       /\ pc # "lscpu" => self_features = features

C8_Witness ==
    /\ system = "Linux"
    /\ cpuinfo_state = "missing"
    /\ lscpu_outcome = "nonzero"
    /\ lscpu_stdout # << >>
    /\ pc = "report"
    /\ self_features = [f \in LinuxFlags |-> FALSE]

\* the sources that failed during probing: file missing, command missing,
\* command timed out
FailedSources ==
    (IF system = "Linux" /\ cpuinfo_state = "missing" THEN {"cpuinfo"} ELSE {})
    \cup (IF system = "Linux" /\ lscpu_outcome \in {"missing", "timeout"}
          THEN {"lscpu"} ELSE {})
    \cup (IF system = "Darwin" /\ sysctl_outcome \in {"missing", "timeout"}
          THEN {"sysctl"} ELSE {})

\* C9: at the end of probing a notice has been printed for every source that
\* could not be read or invoked (only notices are printed before the report).
C9_FailuresReported ==
    pc = "report" => Len(out) >= Cardinality(FailedSources)

\* C10: no step of a run turns a flag from true to false, and when lscpu is
\* missing, times out or exits non-zero the flags /proc/cpuinfo set are true
\* in the FeatureSet _detect_linux returns.
C10_FlagsOnlyRaised ==
    [][ /\ \A f \in DOMAIN features :
              features[f] => f \in DOMAIN features' /\ features'[f]
        /\ \A f \in DOMAIN self_features :
              self_features[f] => f \in DOMAIN self_features' /\ self_features'[f]
        /\ pc = "lscpu" /\ pc' = "report" =>
              \A f \in DOMAIN features :
                  features[f] => f \in DOMAIN self_features' /\ self_features'[f]
      ]_vars

C10_Witness ==
    /\ pc = "report"
    /\ system = "Linux"
    /\ lscpu_outcome = "timeout"
    /\ Holds(self_features, "avx512f")
    /\ Holds(self_features, "amx_tile")

\* C11: on macOS avx512_vnni, avx512_bf16 and amx_bf16 are false in every
\* state of every run, avx512f is true only when sysctl exited with status 0
\* and its output holds an avx512 token, and the package recommended is
\* vllm-cpu or vllm-cpu-avx512.
C11_MacosBaselineOnly ==
    system = "Darwin" =>
        /\ \A f \in {"avx512_vnni", "avx512_bf16", "amx_bf16"} :
              ~Holds(features, f) /\ ~Holds(self_features, f)
        /\ Holds(self_features, "avx512f") <=>
              /\ pc \in {"report", "return", "done"}
              /\ sysctl_outcome = "ok"
              /\ Contains(<<"avx512">>, lower(sysctl_stdout))
        /\ pc \in {"return", "done"} => package \in {"vllm-cpu", "vllm-cpu-avx512"}

C11_Witness ==
    /\ system = "Darwin"
    /\ machine = "x86_64"
    /\ pc = "done"
    /\ sysctl_outcome = "ok"
    /\ Contains(<<"avx512", "vnni">>, lower(sysctl_stdout))
    /\ Contains(<<"avx512", "bf16">>, lower(sysctl_stdout))
    /\ package = "vllm-cpu-avx512"

HasLine(label) == \E i \in 1..Len(out) : out[i][1] = label

\* C12: on Windows detect raises nothing, prints the not-implemented and
\* check-manually notices, leaves the four defined flags false, and the run
\* recommends vllm-cpu.
C12_WindowsNotImplemented ==
    system = "Windows" =>
        /\ exc = None /\ pc # "raised"
        /\ pc # "detect" =>
              /\ HasLine("Windows CPU detection not yet implemented")
              /\ HasLine("Please check CPU features manually")
              /\ DOMAIN self_features = {"avx512f", "avx512_vnni", "avx512_bf16", "amx_bf16"}
              /\ \A f \in DOMAIN self_features : self_features[f] = FALSE
              /\ attempts = [s \in {"cpuinfo", "lscpu", "sysctl"} |-> 0]
        /\ pc \in {"return", "done"} => package = "vllm-cpu"

C12_Witness ==
    /\ system = "Windows"
    /\ machine = "x86_64"
    /\ pc = "done"
    /\ package = "vllm-cpu"
    /\ HasLine("Please check CPU features manually")

\* C13: on an operating system other than Linux, Darwin and Windows, detect
\* raises nothing, prints the unsupported-operating-system notice, leaves
\* the FeatureSet empty, no data source is opened or invoked, and the run
\* recommends vllm-cpu.
C13_UnsupportedSystem ==
    system \notin {"Linux", "Darwin", "Windows"} =>
        /\ exc = None /\ pc # "raised"
        /\ DOMAIN self_features = {}
        /\ \A src \in DOMAIN attempts : attempts[src] = 0
        /\ pc # "detect" => HasLine("Unsupported operating system:")
        /\ pc \in {"return", "done"} => package = "vllm-cpu"

C13_Witness ==
    /\ system = "FreeBSD"
    /\ machine = "x86_64"
    /\ pc = "done"
    /\ package = "vllm-cpu"
    /\ HasLine("Unsupported operating system:")
    /\ HasLine("(No features detected)")

Marked == { i \in 1..Len(out) : out[i][1] = "=>" }

ValuesOf(label) == { out[i][2] : i \in { j \in 1..Len(out) : out[j][1] = label } }

\* C15: once the report is printed exactly one row of the catalog is marked,
\* it names the package printed as the recommendation and in the install
\* hint, that package is the one the tier list gives for the FeatureSet
\* detect left, and the report comes after probing and before the exit status.
C15_ReportMarksRecommendation ==
    /\ pc \in {"return", "done"} =>
          /\ Cardinality(Marked) = 1
          /\ \A i \in Marked : out[i][2] = package
          /\ Cardinality({ i \in 1..Len(out) : out[i][1] \in {"=>", "  "} }) = 5
          /\ ValuesOf("Recommended Package:") = {package}
          /\ ValuesOf("pip install") = {package}
          /\ package = Reference(machine, self_features)
    /\ HasLine("Recommended Package:") => pc \in {"return", "done"}
    /\ exit_code # -1 => HasLine("Recommended Package:") /\ pc = "done"

C15_Witness ==
    /\ pc = "done"
    /\ system = "Linux"
    /\ package = "vllm-cpu-avx512bf16"
    /\ Marked # {}
    /\ \A i \in Marked : out[i][2] = "vllm-cpu-avx512bf16"

\* the union of two FeatureSets: flag-wise OR
OrMerge(a, b) == [f \in DOMAIN a |-> a[f] \/ Holds(b, f)]

\* what each Linux source alone sets in an all-false FeatureSet
FromCpuinfo == ScanCpuinfo([f \in LinuxFlags |-> FALSE], lower(CpuinfoReport))
FromLscpu == ScanLscpu([f \in LinuxFlags |-> FALSE], lower(LscpuReport))

\* C16: the FeatureSet _detect_linux returns is the flag-wise OR of what
\* each source sets alone, taken in either order; it is what the code's
\* searches give with lscpu applied before /proc/cpuinfo, applying either
\* search again changes nothing, and the OR is idempotent, commutative and
\* associative on these FeatureSets.
C16_MergeAlgebra ==
    system = "Linux" /\ pc = "report" =>
        LET zero == [f \in LinuxFlags |-> FALSE]
            c == lower(CpuinfoReport)
            l == lower(LscpuReport)
        IN
          /\ self_features = OrMerge(FromCpuinfo, FromLscpu)
          /\ self_features = OrMerge(FromLscpu, FromCpuinfo)
          /\ self_features = ScanCpuinfo(ScanLscpu(zero, l), c)
          /\ ScanLscpu(self_features, l) = self_features
          /\ ScanCpuinfo(self_features, c) = self_features
          /\ OrMerge(self_features, self_features) = self_features
          /\ OrMerge(OrMerge(zero, FromCpuinfo), FromLscpu)
                = OrMerge(zero, OrMerge(FromCpuinfo, FromLscpu))

C16_Witness ==
    /\ system = "Linux"
    /\ pc = "report"
    /\ cpuinfo_state = "present"
    /\ lscpu_outcome = "ok"
    /\ FromCpuinfo # FromLscpu
    /\ Holds(FromCpuinfo, "amx_tile") /\ ~Holds(FromCpuinfo, "avx512f")
    /\ Holds(FromLscpu, "avx512f")
    /\ Holds(self_features, "amx_tile") /\ Holds(self_features, "avx512f")

\* the ranking of the tiers in C17
Rank(pkg) ==
    CASE pkg = "vllm-cpu" -> 0
      [] pkg = "vllm-cpu-avx512" -> 1
      [] pkg = "vllm-cpu-avx512vnni" -> 2
      [] pkg = "vllm-cpu-avx512bf16" -> 3
      [] pkg = "vllm-cpu-amxbf16" -> 4

\* every flag true in F is true in G
Below(F, G) ==
    \A f \in {"avx512f", "avx512_vnni", "avx512_bf16", "amx_bf16", "amx_tile", "amx_int8"} :
        Holds(F, f) => Holds(G, f)

\* C17: on x86_64, for the FeatureSet F of the detector and every FeatureSet
\* G with every flag of F, the package recommended for G ranks at least as
\* high as the package recommended for F.
C17_Monotone ==
    pc = "recommended" /\ machine = "x86_64" =>
        \A G \in FeatureSets :
            Below(self_features, G) =>
                Rank(recommend_package(machine, G)) >= Rank(package)

C17_Witness ==
    /\ pc = "recommended"
    /\ machine = "x86_64"
    /\ package = "vllm-cpu-avx512vnni"
    /\ Holds(self_features, "avx512f")
    /\ \E G \in FeatureSets :
          /\ Below(self_features, G)
          /\ recommend_package(machine, G) = "vllm-cpu-amxbf16"

\* F and G agree on the four flags of the tier predicates
AgreeOnTierFlags(F, G) ==
    \A f \in {"avx512f", "avx512_vnni", "avx512_bf16", "amx_bf16"} :
        Holds(F, f) <=> Holds(G, f)

\* C18: on every architecture, every FeatureSet that agrees with the
\* detector's on avx512f, avx512_vnni, avx512_bf16 and amx_bf16 gets the same
\* package, whatever its amx_tile and amx_int8.
C18_AmxTileInt8Ignored ==
    pc = "recommended" =>
        \A G \in FeatureSets :
            AgreeOnTierFlags(self_features, G) =>
                recommend_package(machine, G) = package

C18_Witness ==
    /\ pc = "recommended"
    /\ machine = "x86_64"
    /\ package = "vllm-cpu-amxbf16"
    /\ ~Holds(self_features, "amx_tile")
    /\ Holds(self_features, "amx_int8")
    /\ \E G \in FeatureSets :
          /\ AgreeOnTierFlags(self_features, G)
          /\ Holds(G, "amx_tile") /\ ~Holds(G, "amx_int8")

====
